---------------------------- MODULE Spec2Model ----------------------------
(***************************************************************************)
(* TechCorp multi-agent support system: the text-protocol parsers          *)
(* (src/src/agents/orchestrator.py, src/src/agents/evaluator.py), the      *)
(* query pipeline (src/src/multi_agent_system.py, src/src/utils.py) and    *)
(* the result-shaping layer (src/src/schemas.py).                          *)
(*                                                                         *)
(* A Python string is a sequence of atoms.  An atom is a word, the colon,  *)
(* a blank or the line break; str.strip, str.split, str.lower and          *)
(* str.startswith are computed on the atoms.  A float is counted in        *)
(* tenths (0.5 is 5), an exception is a record [exc |-> <its class>].      *)
(***************************************************************************)
EXTENDS Integers, Sequences, FiniteSets, TLC

VARIABLES
    ipc, itext, iresult,        \* IntentOutputParser.parse: position, input, outcome
    epc, etext, eresult,        \* EvaluationOutputParser.parse: position, input, outcome
    spc, sdata, squery, sresult,    \* create_safe_result: position, inputs, outcome
    pc,             \* safe_process_query: where the call stands
    pq_query,       \* its query argument
    pq_evaluate,    \* its evaluate argument
    pq_classification,  \* route_query: what classify_intent returned
    pq_routing,     \* process_query: the routing dictionary
    pq_response,    \* process_query: the response dictionary
    pq_result,      \* how process_query ended: its return value or its exception
    failed,         \* the stage whose call raised, "none" when none did
    calls,          \* the classifier, agents and evaluator invoked, in order
    safe,           \* what safe_process_query returned
    vpc, environ, vresult,      \* validate_environment: position, os.environ, outcome
    mpc,            \* the VectorStoreManager: what is being called on it
    constructing,   \* whether MultiAgentSystem.__init__ made the manager
    vector_stores,  \* its vector_stores dictionary
    step,           \* setup_all_stores, __init__: the store of the loop, the lookup
    built,          \* the stores create_vector_store made, in order, with their names
    lastop,         \* the last call on the manager and how it ended
    tpc,            \* run_evaluation_suite: where the run stands
    test_queries,   \* the test cases it loaded
    ti,             \* the test case its loop is at
    results,        \* its results dictionary
    outcomes        \* what safe_process_query returned for the cases done, in order

ivars == <<ipc, itext, iresult>>
evars == <<epc, etext, eresult>>
svars == <<spc, sdata, squery, sresult>>
pvars ==
    <<pc, pq_query, pq_evaluate, pq_classification, pq_routing, pq_response, pq_result,
      failed, calls, safe>>
nvars == <<vpc, environ, vresult>>
mvars == <<mpc, constructing, vector_stores, step, built, lastop>>
tvars == <<tpc, test_queries, ti, results, outcomes>>
vars == <<ivars, evars, svars, pvars, nvars, mvars, tvars>>

(***************************************************************************)
(* Bounds of the model                                                     *)
(***************************************************************************)
\* most test cases of an evaluation run
MaxCases == 3

\* most stores made by direct calls of create_vector_store
MaxStores == 3

\* longest classifier reply, in lines
MaxIntentLines == 3
\* longest evaluator reply, in lines
MaxEvalLines == 3
\* most source documents in a response
MaxDocs == 2

(***************************************************************************)
(* Python strings                                                          *)
(***************************************************************************)
NL == "\n"
SP == " "
COLON == ":"
Whitespace == {SP, NL}

\* str.lower on one atom
lower_atom(a) ==
    CASE a \in {"Intent", "INTENT"} -> "intent"
      [] a \in {"Confidence", "CONFIDENCE"} -> "confidence"
      [] a \in {"Reasoning", "REASONING"} -> "reasoning"
      [] a \in {"Relevance", "RELEVANCE"} -> "relevance"
      [] a \in {"Completeness", "COMPLETENESS"} -> "completeness"
      [] a \in {"Accuracy", "ACCURACY"} -> "accuracy"
      [] a \in {"Overall", "OVERALL"} -> "overall"
      [] a \in {"HR", "Hr"} -> "hr"
      [] a \in {"Tech", "TECH"} -> "tech"
      [] a \in {"Finance", "FINANCE"} -> "finance"
      [] a \in {"General", "GENERAL"} -> "general"
      [] a = "Sales" -> "sales"
      [] a = "Vacation" -> "vacation"
      [] a = "Good" -> "good"
      [] OTHER -> a

\* str.lower
lower(s) == [i \in 1..Len(s) |-> lower_atom(s[i])]

RECURSIVE lstrip(_)
lstrip(s) ==
    IF s # <<>> /\ Head(s) \in Whitespace THEN lstrip(Tail(s)) ELSE s

RECURSIVE rstrip(_)
rstrip(s) ==
    IF s # <<>> /\ s[Len(s)] \in Whitespace THEN rstrip(SubSeq(s, 1, Len(s) - 1)) ELSE s

\* str.strip
strip(s) == rstrip(lstrip(s))

\* index of the first atom of s equal to a, 0 when there is none
RECURSIVE find_from(_, _, _)
find_from(s, a, i) ==
    IF i > Len(s) THEN 0
    ELSE IF s[i] = a THEN i
    ELSE find_from(s, a, i + 1)

find(s, a) == find_from(s, a, 1)

\* str.split(sep): the pieces between the separators, one piece when there is none
RECURSIVE split(_, _)
split(s, sep) ==
    LET i == find(s, sep)
    IN  IF i = 0 THEN <<s>>
        ELSE <<SubSeq(s, 1, i - 1)>> \o split(SubSeq(s, i + 1, Len(s)), sep)

\* line.split(":", 1)[1]: what follows the first colon of a line that has one
after_colon(line) == SubSeq(line, find(line, COLON) + 1, Len(line))

\* a faulty label test that compares without lowering the line
startswith_label_case_sensitive(line, label) ==
    /\ Len(line) >= 2
    /\ line[1] = label
    /\ line[2] = COLON

\* line.lower().startswith("<label>:")
startswith_label(line, label) ==
    /\ Len(line) >= 2
    /\ lower_atom(line[1]) = label
    /\ line[2] = COLON

\* next((line for line in lines if line.lower().startswith(prefix)), "")
RECURSIVE first_line(_, _)
first_line(lines, label) ==
    IF lines = <<>> THEN <<>>
    ELSE IF startswith_label(Head(lines), label) THEN Head(lines)
    ELSE first_line(Tail(lines), label)

\* float(s), in tenths: the atoms Python reads as a number
FloatLiterals ==
    {"0", "0.0", "0.1", "0.5", "0.8", "0.9", "1", "1.0", "1.5", "-0.2", "7", "7.0"}

float_value(a) ==
    CASE a \in {"0", "0.0"} -> 0
      [] a = "0.1" -> 1
      [] a = "0.5" -> 5
      [] a = "0.8" -> 8
      [] a = "0.9" -> 9
      [] a \in {"1", "1.0"} -> 10
      [] a = "1.5" -> 15
      [] a = "-0.2" -> -2
      [] a \in {"7", "7.0"} -> 70

\* float(s): the number, or ValueError
float(s) ==
    IF Len(s) = 1 /\ s[1] \in FloatLiterals
    THEN [exc |-> "none", value |-> float_value(s[1])]
    ELSE [exc |-> "ValueError"]

\* int(s): the atoms Python reads as an integer
IntLiterals == {"0", "1", "3", "7", "8", "10", "11", "-3"}

int_value(a) ==
    CASE a = "0" -> 0
      [] a = "1" -> 1
      [] a = "3" -> 3
      [] a = "7" -> 7
      [] a = "8" -> 8
      [] a = "10" -> 10
      [] a = "11" -> 11
      [] a = "-3" -> -3

\* int(s): the integer, or ValueError
int(s) ==
    IF Len(s) = 1 /\ s[1] \in IntLiterals
    THEN [exc |-> "none", value |-> int_value(s[1])]
    ELSE [exc |-> "ValueError"]

(***************************************************************************)
(* IntentOutputParser (orchestrator.py)                                    *)
(***************************************************************************)
HR == <<"hr">>
TECH == <<"tech">>
FINANCE == <<"finance">>
GENERAL == <<"general">>

\* Literal["hr", "tech", "finance", "general"]
IntentLiteral == {HR, TECH, FINANCE, GENERAL}

\* IntentClassification(intent=..., confidence=..., reasoning=...): pydantic
\* validates the intent against the Literal and raises ValidationError
IntentClassification(intent, confidence, reasoning) ==
    IF intent \in IntentLiteral
    THEN [exc |-> "none", intent |-> intent, confidence |-> confidence,
          reasoning |-> reasoning]
    ELSE [exc |-> "ValidationError"]

\* a faulty _extract_field that forgets .lower() on the value
extract_field_keeps_case(lines, label, default) ==
    LET line == first_line(lines, label)
    IN  IF find(line, COLON) # 0 THEN strip(after_colon(line)) ELSE default

_extract_field(lines, label, default) ==
    LET line == first_line(lines, label)
    IN  IF find(line, COLON) # 0 THEN lower(strip(after_colon(line))) ELSE default

_extract_confidence(lines) ==
    LET confidence_line == first_line(lines, "confidence")
        confidence_str == IF find(confidence_line, COLON) # 0
                          THEN strip(after_colon(confidence_line))
                          ELSE <<"0.5">>
        f == float(confidence_str)
    IN  IF f.exc = "none" THEN f.value ELSE 5

\* a faulty _parse_classification_text that has no except clause
parse_classification_text_unguarded(text) ==
    LET lines == split(strip(text), NL)
    IN  IntentClassification(
            _extract_field(lines, "intent", GENERAL),
            _extract_confidence(lines),
            _extract_field(lines, "reasoning", <<"Unable to determine reasoning">>))

_parse_classification_text(text) ==
    LET lines == split(strip(text), NL)
        intent == _extract_field(lines, "intent", GENERAL)
        confidence == _extract_confidence(lines)
        reasoning == _extract_field(lines, "reasoning",
                                    <<"Unable to determine reasoning">>)
        made == IntentClassification(intent, confidence, reasoning)
    IN  IF made.exc = "none" THEN made
        ELSE IntentClassification(GENERAL, 1, <<"Failed to parse response">>)

\* IntentOutputParser.parse
IntentOutputParser_parse(text) == _parse_classification_text(text)

(***************************************************************************)
(* EvaluationOutputParser (evaluator.py)                                   *)
(***************************************************************************)
ScoreTypes == <<"relevance", "completeness", "accuracy", "overall">>

\* EvaluationResult(relevance_score=..., ..., reasoning=...)
EvaluationResult(scores, reasoning) ==
    IF \A k \in DOMAIN scores : scores[k] \in Int
    THEN [exc |-> "none", relevance_score |-> scores["relevance"],
          completeness_score |-> scores["completeness"],
          accuracy_score |-> scores["accuracy"],
          overall_score |-> scores["overall"], reasoning |-> reasoning]
    ELSE [exc |-> "ValidationError"]

\* the scores dictionary _extract_scores starts from
DefaultScores == [k \in {"relevance", "completeness", "accuracy", "overall"} |-> 5]

\* a faulty scan_line whose int() is not guarded by try/except ValueError
RECURSIVE scan_line_unguarded(_, _, _)
scan_line_unguarded(scores, line, i) ==
    IF i > Len(ScoreTypes) THEN [exc |-> "none", scores |-> scores]
    ELSE IF startswith_label(line, ScoreTypes[i])
         THEN LET n == int(strip(after_colon(line)))
              IN  IF n.exc = "none"
                  THEN scan_line_unguarded([scores EXCEPT ![ScoreTypes[i]] = n.value],
                                           line, i + 1)
                  ELSE [exc |-> "ValueError"]
         ELSE scan_line_unguarded(scores, line, i + 1)

\* a faulty scan_line that passes the list line.split(":", 1) to int(),
\* which is a TypeError
RECURSIVE scan_line_int_of_list(_, _, _)
scan_line_int_of_list(scores, line, i) ==
    IF i > Len(ScoreTypes) THEN [exc |-> "none", scores |-> scores]
    ELSE IF startswith_label(line, ScoreTypes[i])
         THEN [exc |-> "TypeError"]
         ELSE scan_line_int_of_list(scores, line, i + 1)

\* the body of the loop over lines in _extract_scores: the scores after the
\* line has been tried against each score type from the i-th on, or the
\* exception that left the loop
RECURSIVE scan_line(_, _, _)
scan_line(scores, line, i) ==
    IF i > Len(ScoreTypes) THEN [exc |-> "none", scores |-> scores]
    ELSE IF startswith_label(line, ScoreTypes[i])
         THEN LET n == int(strip(after_colon(line)))
              IN  IF n.exc = "none"
                  THEN scan_line([scores EXCEPT ![ScoreTypes[i]] = n.value], line, i + 1)
                  ELSE scan_line(scores, line, i + 1)
         ELSE scan_line(scores, line, i + 1)

RECURSIVE scan_lines(_, _)
scan_lines(scores, lines) ==
    IF lines = <<>> THEN [exc |-> "none", scores |-> scores]
    ELSE LET r == scan_line(scores, Head(lines), 1)
         IN  IF r.exc = "none" THEN scan_lines(r.scores, Tail(lines)) ELSE r

_extract_scores(lines) == scan_lines(DefaultScores, lines)

RECURSIVE _extract_reasoning(_)
_extract_reasoning(lines) ==
    IF lines = <<>> THEN <<"No reasoning provided">>
    ELSE IF startswith_label(Head(lines), "reasoning")
         THEN strip(after_colon(Head(lines)))
         ELSE _extract_reasoning(Tail(lines))

_default_evaluation(reasoning) == EvaluationResult(DefaultScores, reasoning)

\* [line.strip() for line in lines if line.strip()]
RECURSIVE stripped_lines(_)
stripped_lines(lines) ==
    IF lines = <<>> THEN <<>>
    ELSE IF strip(Head(lines)) # <<>>
         THEN <<strip(Head(lines))>> \o stripped_lines(Tail(lines))
         ELSE stripped_lines(Tail(lines))

_parse_evaluation_text(text) ==
    LET lines == stripped_lines(split(strip(text), NL))
        scores == _extract_scores(lines)
        reasoning == _extract_reasoning(lines)
        made == IF scores.exc = "none" THEN EvaluationResult(scores.scores, reasoning)
                ELSE scores
    IN  IF made.exc \in {"ValueError", "ValidationError", "IndexError"}
        THEN _default_evaluation(<<"Failed to parse evaluation: ", made.exc>>)
        ELSE made

\* EvaluationOutputParser.parse
EvaluationOutputParser_parse(text) == _parse_evaluation_text(text)

(***************************************************************************)
(* Python values of the raw result: a value is a record tagged with its    *)
(* type; a dict is a function from its keys.                               *)
(***************************************************************************)
PyNone == [t |-> "NoneType"]
PyStr(s) == [t |-> "str", v |-> s]
PyFloat(x) == [t |-> "float", v |-> x]
PyInt(n) == [t |-> "int", v |-> n]
PyList(s) == [t |-> "list", v |-> s]
PyDict(f) == [t |-> "dict", v |-> f]

EmptyMap == [k \in {} |-> PyNone]

\* bool(x)
truthy(x) ==
    CASE x.t = "NoneType" -> FALSE
      [] x.t = "str" -> x.v # <<>>
      [] x.t = "list" -> x.v # <<>>
      [] x.t = "dict" -> DOMAIN x.v # {}
      [] x.t \in {"int", "float"} -> x.v # 0
      [] OTHER -> TRUE

\* d.get(key, default) on a dict
dict_get(d, key, default) == IF key \in DOMAIN d.v THEN d.v[key] ELSE default

\* str(x) of a float, in tenths
str_float(x) ==
    CASE x = 0 -> <<"0.0">>
      [] x = 1 -> <<"0.1">>
      [] x = 5 -> <<"0.5">>
      [] x = 8 -> <<"0.8">>
      [] x = 9 -> <<"0.9">>
      [] x = 10 -> <<"1.0">>
      [] x = 15 -> <<"1.5">>
      [] x = -2 -> <<"-0.2">>
      [] x = 70 -> <<"7.0">>

(***************************************************************************)
(* The records of schemas.py and their validation by pydantic              *)
(***************************************************************************)
ValidationError == [exc |-> "ValidationError"]

\* a field declared str = "": the given value when it is a str
str_field(kw, key) ==
    IF key \notin DOMAIN kw THEN [exc |-> "none", value |-> <<>>]
    ELSE IF kw[key].t = "str" THEN [exc |-> "none", value |-> kw[key].v]
    ELSE ValidationError

\* a field declared float = 0.0: a number, or a str that reads as one
float_field(kw, key) ==
    IF key \notin DOMAIN kw THEN [exc |-> "none", value |-> 0]
    ELSE IF kw[key].t = "float" THEN [exc |-> "none", value |-> kw[key].v]
    ELSE IF kw[key].t = "int" THEN [exc |-> "none", value |-> 10 * kw[key].v]
    ELSE IF kw[key].t = "str" /\ float(strip(kw[key].v)).exc = "none"
         THEN float(strip(kw[key].v))
    ELSE ValidationError

\* SourceDocument(**doc_data)
SourceDocument(kw) ==
    LET content == str_field(kw, "content")
    IN  IF /\ "filename" \in DOMAIN kw
           /\ kw["filename"].t = "str"
           /\ content.exc = "none"
           /\ ("metadata" \in DOMAIN kw => kw["metadata"].t = "dict")
        THEN [exc |-> "none", t |-> "SourceDocument",
              filename |-> kw["filename"].v, content |-> content.value]
        ELSE ValidationError

\* RoutingInfo(**routing_data)
RoutingInfo(routing_data) ==
    IF routing_data.t # "dict" THEN [exc |-> "TypeError"]
    ELSE LET kw == routing_data.v
             confidence == float_field(kw, "confidence")
             reasoning == str_field(kw, "reasoning")
             route_to == str_field(kw, "route_to")
         IN  IF /\ "intent" \in DOMAIN kw
                /\ kw["intent"].t = "str"
                /\ confidence.exc = "none"
                /\ reasoning.exc = "none"
                /\ route_to.exc = "none"
             THEN [exc |-> "none", t |-> "RoutingInfo", intent |-> kw["intent"].v,
                   confidence |-> confidence.value, reasoning |-> reasoning.value,
                   route_to |-> route_to.value]
             ELSE ValidationError

\* ResponseInfo(agent=..., answer=..., source_documents=...)
ResponseInfo(agent, answer, source_documents) ==
    IF agent.t = "str" /\ answer.t = "str"
    THEN [exc |-> "none", t |-> "ResponseInfo", agent |-> agent.v,
          answer |-> answer.v, source_documents |-> source_documents]
    ELSE ValidationError

\* QueryResult(query=..., routing=..., response=..., evaluation=...)
QueryResult(query, routing, response, evaluation) ==
    IF query.t = "str" /\ evaluation.t \in {"NoneType", "dict"}
    THEN [exc |-> "none", cls |-> "QueryResult", query |-> query.v,
          routing |-> routing, response |-> response, evaluation |-> evaluation,
          error_message |-> <<>>]
    ELSE ValidationError

\* EmptyQueryResult(query, error_message)
EmptyQueryResult(query, error_message) ==
    [exc |-> "none", cls |-> "EmptyQueryResult", query |-> query,
     routing |-> PyNone, response |-> PyNone, evaluation |-> PyNone,
     error_message |-> error_message]

\* a faulty is_successful that does not look at the answer
is_successful_without_answer(r) ==
    r.routing.t # "NoneType" /\ r.response.t # "NoneType"

\* QueryResult.is_successful
is_successful(r) ==
    /\ r.routing.t # "NoneType"
    /\ r.response.t # "NoneType"
    /\ r.response.answer # <<>>

\* QueryResult.intent
intent(r) == IF r.routing.t # "NoneType" THEN r.routing.intent ELSE <<"unknown">>

\* QueryResult.confidence
confidence(r) == IF r.routing.t # "NoneType" THEN r.routing.confidence ELSE 0

\* a faulty agent accessor whose default is the one create_safe_result uses
agent_default_unknown(r) ==
    IF r.response.t # "NoneType" THEN r.response.agent ELSE <<"unknown">>

\* QueryResult.agent
agent(r) == IF r.response.t # "NoneType" THEN r.response.agent ELSE <<"none">>

\* QueryResult.answer
answer(r) == IF r.response.t # "NoneType" THEN r.response.answer ELSE <<>>

\* QueryResult.source_documents
source_documents(r) ==
    IF r.response.t # "NoneType" THEN r.response.source_documents ELSE <<>>

\* key in x, x[key]: TypeError when x is no container
contains(x, key) ==
    CASE x.t = "dict" -> [exc |-> "none", value |-> key \in DOMAIN x.v]
      [] x.t = "str" -> [exc |-> "none", value |-> \E i \in 1..Len(x.v) : x.v[i] = key]
      [] x.t = "list" -> [exc |-> "none", value |-> FALSE]
      [] OTHER -> [exc |-> "TypeError"]

\* QueryResult.evaluation_score
evaluation_score(r) ==
    IF ~truthy(r.evaluation) \/ "evaluation" \notin DOMAIN r.evaluation.v
    THEN [exc |-> "none", value |-> PyFloat(0)]
    ELSE LET inner == r.evaluation.v["evaluation"]
             has == contains(inner, "overall_score")
         IN  IF has.exc # "none" THEN has
             ELSE IF ~has.value THEN [exc |-> "none", value |-> PyFloat(0)]
             ELSE IF inner.t = "dict"
                  THEN [exc |-> "none", value |-> inner.v["overall_score"]]
                  ELSE [exc |-> "TypeError"]

\* QueryResult.has_evaluation
has_evaluation(r) ==
    /\ r.evaluation.t # "NoneType"
    /\ "evaluation" \in DOMAIN r.evaluation.v
    /\ r.evaluation.v["evaluation"].t # "NoneType"

\* the source_documents loop of create_safe_result: the converted documents,
\* or the exception that left the loop
RECURSIVE convert_documents(_)
convert_documents(docs) ==
    IF docs = <<>> THEN [exc |-> "none", value |-> <<>>]
    ELSE LET rest == convert_documents(Tail(docs))
         IN  IF Head(docs).t # "dict"
             THEN rest
             ELSE LET doc == SourceDocument(Head(docs).v)
                  IN  IF doc.exc # "none" THEN doc
                      ELSE IF rest.exc # "none" THEN rest
                      ELSE [exc |-> "none", value |-> <<doc>> \o rest.value]

\* the try block of create_safe_result: the QueryResult, or the exception
convert(data, query) ==
    IF data.t # "dict" THEN [exc |-> "AttributeError"]
    ELSE LET routing_data == dict_get(data, "routing", PyNone)
             routing == IF truthy(routing_data) THEN RoutingInfo(routing_data)
                        ELSE PyNone
             response_data == dict_get(data, "response", PyNone)
         IN  IF truthy(routing_data) /\ routing.exc # "none" THEN routing
             ELSE IF ~truthy(response_data)
                  THEN QueryResult(dict_get(data, "query", PyStr(query)), routing,
                                   PyNone, dict_get(data, "evaluation", PyNone))
             ELSE IF response_data.t # "dict" THEN [exc |-> "AttributeError"]
             ELSE LET listed == dict_get(response_data, "source_documents",
                                         PyList(<<>>))
                      source_docs == IF listed.t = "list"
                                     THEN convert_documents(listed.v)
                                     ELSE [exc |-> "TypeError"]
                      response == IF source_docs.exc # "none" THEN source_docs
                                  ELSE ResponseInfo(
                                      dict_get(response_data, "agent",
                                               PyStr(<<"unknown">>)),
                                      dict_get(response_data, "answer", PyStr(<<>>)),
                                      source_docs.value)
                  IN  IF response.exc # "none" THEN response
                      ELSE QueryResult(dict_get(data, "query", PyStr(query)),
                                       routing, response,
                                       dict_get(data, "evaluation", PyNone))

\* a faulty create_safe_result that lets a conversion failure escape
create_safe_result_unguarded(data, query) ==
    IF ~truthy(data) THEN EmptyQueryResult(query, <<"Query processing failed">>)
    ELSE convert(data, query)

\* create_safe_result(data, query)
create_safe_result(data, query) ==
    IF ~truthy(data) THEN EmptyQueryResult(query, <<"Query processing failed">>)
    ELSE LET made == convert(data, query)
         IN  IF made.exc = "none" THEN made
             ELSE EmptyQueryResult(query, <<"Schema conversion failed: ", made.exc>>)

(***************************************************************************)
(* The query pipeline: OrchestratorAgent.route_query, the domain agents,   *)
(* MultiAgentSystem.process_query and safe_process_query                   *)
(***************************************************************************)
HR_AGENT == <<"hr", "_agent">>
TECH_AGENT == <<"tech", "_agent">>
FINANCE_AGENT == <<"finance", "_agent">>

\* a faulty route_query that routes every intent to an agent of its name
route_query_always_agent(classification) ==
    PyDict([intent |-> PyStr(classification.intent),
            confidence |-> PyStr(str_float(classification.confidence)),
            reasoning |-> PyStr(classification.reasoning),
            route_to |-> PyStr(classification.intent \o <<"_agent">>)])

\* OrchestratorAgent.route_query, given the classification
route_query(classification) ==
    PyDict([intent |-> PyStr(classification.intent),
            confidence |-> PyStr(str_float(classification.confidence)),
            reasoning |-> PyStr(classification.reasoning),
            route_to |-> PyStr(IF classification.intent # GENERAL
                               THEN classification.intent \o <<"_agent">>
                               ELSE <<"general_response">>)])

\* one entry of the source_documents list answer_query builds
source_entry(doc) ==
    PyDict([content |-> PyStr(doc.page_content \o <<"...">>),
            source |-> PyStr(dict_get(doc.metadata, "source", PyStr(<<"Unknown">>)).v),
            filename |-> PyStr(dict_get(doc.metadata, "filename",
                                        PyStr(<<"Unknown">>)).v)])

\* BaseRAGAgent.answer_query, given what the chain returned
answer_query(agent_name, result, docs) ==
    PyDict([answer |-> PyStr(result),
            source_documents |-> PyList([i \in 1..Len(docs) |-> source_entry(docs[i])]),
            agent |-> PyStr(agent_name)])

\* the canned answer of process_query
FallbackAnswer ==
    <<"I'm sorry, I couldn't determine which department can best help you">>

\* a faulty fallback response whose answer is empty
GeneralResponseWithoutAnswer ==
    PyDict([answer |-> PyStr(<<>>),
            source_documents |-> PyList(<<>>),
            agent |-> PyStr(GENERAL)])

\* the response process_query builds when no agent matches the intent
GeneralResponse ==
    PyDict([answer |-> PyStr(FallbackAnswer),
            source_documents |-> PyList(<<>>),
            agent |-> PyStr(GENERAL)])

\* a faulty if/elif chain that has no branch for finance
selected_agent_without_finance(routing) ==
    CASE routing.v["intent"] = PyStr(HR) -> HR_AGENT
      [] routing.v["intent"] = PyStr(TECH) -> TECH_AGENT
      [] OTHER -> <<>>

\* the agent the if/elif chain of process_query selects, <<>> for the else branch
selected_agent(routing) ==
    CASE routing.v["intent"] = PyStr(HR) -> HR_AGENT
      [] routing.v["intent"] = PyStr(TECH) -> TECH_AGENT
      [] routing.v["intent"] = PyStr(FINANCE) -> FINANCE_AGENT
      [] OTHER -> <<>>

\* a faulty condition of step 3 that does not look at the agent
needs_evaluation_any_agent(evaluate, response) == evaluate

\* the condition of step 3 of process_query
needs_evaluation(evaluate, response) ==
    evaluate /\ response.v["agent"] # PyStr(GENERAL)

\* evaluation.dict()
evaluation_dict(e) ==
    PyDict([relevance_score |-> PyInt(e.relevance_score),
            completeness_score |-> PyInt(e.completeness_score),
            accuracy_score |-> PyInt(e.accuracy_score),
            overall_score |-> PyInt(e.overall_score),
            reasoning |-> PyStr(e.reasoning)])

Skipped == [exc |-> "skipped"]
Raised == [exc |-> "Exception"]

\* a faulty process_query_return whose evaluation has no try/except
process_query_return_unguarded(query, routing, response, evaluation) ==
    IF evaluation.exc = "Exception" THEN Raised
    ELSE [exc |-> "none",
          value |-> PyDict([query |-> PyStr(query), routing |-> routing,
                            response |-> response,
                            evaluation |-> IF evaluation.exc = "skipped" THEN PyNone
                                           ELSE PyDict([evaluation |->
                                                    evaluation_dict(evaluation)])])]

\* what process_query returns once routing and response are known;
\* evaluation is Skipped when step 3 is not entered, else the evaluator's
\* record or the exception it raised
process_query_return(query, routing, response, evaluation) ==
    [exc |-> "none",
     value |-> PyDict([query |-> PyStr(query), routing |-> routing,
                       response |-> response,
                       evaluation |->
                          CASE evaluation.exc = "skipped" -> PyNone
                            [] evaluation.exc = "none" ->
                                 PyDict([evaluation |-> evaluation_dict(evaluation)])
                            [] OTHER ->
                                 PyDict([error |-> PyStr(<<"Evaluation failed: ",
                                                          evaluation.exc>>)])])]

\* main.py, interactive_demo: the score read from a result of process_query
\* after the test of result["evaluation"] alone
read_overall_score(result) ==
    IF ~truthy(result.v["evaluation"]) THEN Skipped
    ELSE IF "evaluation" \notin DOMAIN result.v["evaluation"].v
         THEN [exc |-> "KeyError"]
    ELSE IF "overall_score" \notin DOMAIN result.v["evaluation"].v["evaluation"].v
         THEN [exc |-> "KeyError"]
    ELSE [exc |-> "none",
          value |-> result.v["evaluation"].v["evaluation"].v["overall_score"]]

\* a faulty safe_process_query that has no try/except
safe_process_query_unguarded(outcome, query) ==
    IF outcome.exc = "none" THEN create_safe_result(outcome.value, query)
    ELSE outcome

\* safe_process_query, given how system.process_query ended
safe_process_query(outcome, query) ==
    IF outcome.exc = "none" THEN create_safe_result(outcome.value, query)
    ELSE create_safe_result(PyNone, query)

(***************************************************************************)
(* validate_environment of config.py                                       *)
(***************************************************************************)
required_vars == <<"OPENAI_API_KEY", "LANGFUSE_PUBLIC_KEY", "LANGFUSE_SECRET_KEY">>

\* os.getenv(var): the value, None when the variable is not set
getenv(env, var) == IF var \in DOMAIN env THEN PyStr(env[var]) ELSE PyNone

\* sep.join(names)
RECURSIVE join_names(_, _)
join_names(names, sep) ==
    IF names = <<>> THEN <<>>
    ELSE IF Len(names) = 1 THEN names
    ELSE <<names[1], sep>> \o join_names(Tail(names), sep)

MissingPrefix == "Missing required environment variables: "

\* a faulty validate_environment that only looks for unset variables
validate_environment_unset_only(env) ==
    LET missing_vars == SelectSeq(required_vars, LAMBDA var : var \notin DOMAIN env)
    IN  IF missing_vars # <<>>
        THEN [exc |-> "ValueError",
              message |-> <<MissingPrefix>> \o join_names(missing_vars, ", ")]
        ELSE [exc |-> "none", value |-> PyNone]

\* validate_environment(), given os.environ
validate_environment(env) ==
    LET missing_vars == SelectSeq(required_vars, LAMBDA var : ~truthy(getenv(env, var)))
    IN  IF missing_vars # <<>>
        THEN [exc |-> "ValueError",
              message |-> <<MissingPrefix>> \o join_names(missing_vars, ", ")]
        ELSE [exc |-> "none", value |-> PyNone]

(***************************************************************************)
(* VectorStoreManager of vector_store.py                                   *)
(***************************************************************************)
\* a faulty stores dictionary that names the stores after their folders
stores_by_folder ==
    <<[store_name |-> "hr_docs", folder_name |-> "hr_docs"],
      [store_name |-> "tech_docs", folder_name |-> "tech_docs"],
      [store_name |-> "finance_docs", folder_name |-> "finance_docs"]>>

\* the stores dictionary of setup_all_stores, in its order
stores ==
    <<[store_name |-> "hr", folder_name |-> "hr_docs"],
      [store_name |-> "tech", folder_name |-> "tech_docs"],
      [store_name |-> "finance", folder_name |-> "finance_docs"]>>

\* the names MultiAgentSystem.__init__ looks up, in its order
LookupOrder == <<"hr", "tech", "finance">>

\* a faulty create_vector_store that keeps the store a name already has
create_vector_store_keep_first(held, store_name, vector_store) ==
    [k \in DOMAIN held \cup {store_name} |->
        IF k \in DOMAIN held THEN held[k] ELSE vector_store]

\* self.vector_stores after create_vector_store has built vector_store
create_vector_store(held, store_name, vector_store) ==
    [k \in DOMAIN held \cup {store_name} |->
        IF k = store_name THEN vector_store ELSE held[k]]

\* get_vector_store(store_name): the store or the ValueError, and
\* self.vector_stores after the call
get_vector_store(held, store_name) ==
    IF store_name \notin DOMAIN held
    THEN [op |-> "get_vector_store", store_name |-> store_name, before |-> held,
          exc |-> "ValueError",
          message |-> <<"Vector store '", store_name, "' not found">>,
          after |-> held]
    ELSE [op |-> "get_vector_store", store_name |-> store_name, before |-> held,
          exc |-> "none", value |-> held[store_name], after |-> held]

(***************************************************************************)
(* run_evaluation_suite of evaluate.py                                     *)
(***************************************************************************)
\* an answer of more than 20 characters
LongAnswer == <<"Employees accrue 15 vacation days per year">>

\* len of one atom of an answer, in characters
len_atom(a) ==
    CASE a = "Answer" -> 6
      [] a = LongAnswer[1] -> 42
      [] a = FallbackAnswer[1] -> 235
      [] OTHER -> 1

\* len(s), in characters
RECURSIVE len(_)
len(s) == IF s = <<>> THEN 0 ELSE len_atom(Head(s)) + len(Tail(s))

\* the results dictionary before the loop
initial_results(queries) ==
    [total_queries |-> Len(queries),
     correct_classifications |-> 0,
     successful_responses |-> 0,
     quality_scores |-> <<>>,
     by_domain |-> [d \in {HR, TECH, FINANCE, GENERAL} |-> [total |-> 0, correct |-> 0]]]

\* a faulty loop body that counts the case for its domain before it looks
\* at is_successful
record_result_counting_failures(res, expected_intent, result) ==
    IF expected_intent \notin DOMAIN res.by_domain THEN [exc |-> "KeyError"]
    ELSE LET is_correct == is_successful(result) /\ intent(result) = expected_intent
             has_response == is_successful(result) /\ len(answer(result)) > 20
             stats == res.by_domain[expected_intent]
         IN  [exc |-> "none",
              value |->
                 [res EXCEPT
                    !.by_domain[expected_intent] =
                        [total |-> stats.total + 1,
                         correct |-> stats.correct + IF is_correct THEN 1 ELSE 0],
                    !.correct_classifications = @ + IF is_correct THEN 1 ELSE 0,
                    !.successful_responses = @ + IF has_response THEN 1 ELSE 0]]

\* one round of the loop of run_evaluation_suite, given what
\* safe_process_query returned: the results after it, or the exception
record_result(res, expected_intent, result) ==
    IF ~is_successful(result) THEN [exc |-> "none", value |-> res]
    ELSE IF expected_intent \notin DOMAIN res.by_domain THEN [exc |-> "KeyError"]
    ELSE IF has_evaluation(result) /\ evaluation_score(result).exc # "none"
         THEN evaluation_score(result)
    ELSE LET is_correct == intent(result) = expected_intent
             has_response == answer(result) # <<>> /\ len(answer(result)) > 20
             stats == res.by_domain[expected_intent]
         IN  [exc |-> "none",
              value |->
                 [res EXCEPT
                    !.by_domain[expected_intent] =
                        [total |-> stats.total + 1,
                         correct |-> stats.correct + IF is_correct THEN 1 ELSE 0],
                    !.correct_classifications = @ + IF is_correct THEN 1 ELSE 0,
                    !.successful_responses = @ + IF has_response THEN 1 ELSE 0,
                    !.quality_scores =
                        IF has_evaluation(result)
                        THEN Append(@, evaluation_score(result).value)
                        ELSE @]]

(***************************************************************************)
(* The replies of the language model the parsers are given                 *)
(***************************************************************************)
IntentLineSet == {
    <<"Intent", COLON, SP, "hr">>,
    <<"INTENT", COLON, SP, "Tech", SP>>,
    <<"intent", COLON, "finance">>,
    <<"Intent", COLON, SP, "general">>,
    <<"Intent", COLON, SP, "Sales">>,
    <<"Intent", COLON>>,
    <<SP, "Intent", COLON, SP, "hr">>,
    <<"Confidence", COLON, SP, "0.9">>,
    <<SP, "Confidence", COLON, SP, "0.9">>,
    <<"CONFIDENCE", COLON, SP, "1.5">>,
    <<"Confidence", COLON, SP, "-0.2">>,
    <<"Confidence", COLON, SP, "high">>,
    <<"Confidence", COLON, SP, "0.8", SP, "high">>,
    <<"Reasoning", COLON, SP, "Vacation", SP, "policy">>,
    <<"REASONING", COLON>>,
    <<"Hello">>,
    <<>> }

EvalLineSet == {
    <<"Relevance", COLON, SP, "8">>,
    <<"RELEVANCE", COLON, SP, "abc">>,
    <<"Completeness", COLON, SP, "7">>,
    <<"completeness", COLON, SP, "7.5">>,
    <<"Accuracy", COLON, SP, "11">>,
    <<"Accuracy", COLON>>,
    <<"Overall", COLON, SP, "-3">>,
    <<SP, "Overall", COLON, SP, "10", SP>>,
    <<"Overall", COLON, SP, "8", "/", "10">>,
    <<"Reasoning", COLON, SP, "Good", SP, "answer">>,
    <<"Hello">>,
    <<>> }

\* "\n".join(lines)
RECURSIVE join(_)
join(lines) ==
    IF lines = <<>> THEN <<>>
    ELSE IF Len(lines) = 1 THEN lines[1]
    ELSE lines[1] \o <<NL>> \o join(Tail(lines))

SeqsUpTo(S, n) == UNION {[1..k -> S] : k \in 0..n}

IntentTexts == {join(ls) : ls \in SeqsUpTo(IntentLineSet, MaxIntentLines)}
EvalTexts == {join(ls) : ls \in SeqsUpTo(EvalLineSet, MaxEvalLines)}

NoResult == [exc |-> "pending"]

\* what the parsers make of the replies
ClassifierOutcomes == {IntentOutputParser_parse(text) : text \in IntentTexts}
EvaluatorOutcomes == {EvaluationOutputParser_parse(text) : text \in EvalTexts}

\* the queries asked
Queries == {<<"vacation", SP, "days">>, <<"laptop">>}

\* what a retrieval chain returns: an answer, possibly empty, and the
\* documents retrieved, whose metadata may lack the filename
Answers == {<<"Answer">>, <<>>}

Documents == {
    [page_content |-> <<"chunk">>,
     metadata |-> PyDict([source |-> PyStr(<<"data/hr_docs/a.txt">>),
                          filename |-> PyStr(<<"a.txt">>)])],
    [page_content |-> <<>>, metadata |-> PyDict(EmptyMap)] }

Retrievals == SeqsUpTo(Documents, MaxDocs)

\* raw results given to create_safe_result: every part may be missing,
\* None, empty or of the wrong shape
Absent == [t |-> "absent"]

MakeDict(f) == PyDict([k \in {j \in DOMAIN f : f[j].t # "absent"} |-> f[k]])

RoutingSamples == {
    Absent, PyNone, PyDict(EmptyMap), PyStr(<<"oops">>),
    PyDict([intent |-> PyStr(HR), confidence |-> PyStr(<<"0.9">>),
            reasoning |-> PyStr(<<"vacation">>), route_to |-> PyStr(HR_AGENT)]),
    PyDict([intent |-> PyStr(TECH)]),
    PyDict([confidence |-> PyStr(<<"0.9">>)]),
    PyDict([intent |-> PyStr(HR), confidence |-> PyStr(<<"high">>)]) }

DocumentSamples == {
    PyDict([filename |-> PyStr(<<"a.txt">>), content |-> PyStr(<<"chunk">>),
            source |-> PyStr(<<"data/hr_docs/a.txt">>)]),
    PyDict([content |-> PyStr(<<"chunk">>)]),
    PyStr(<<"a.txt">>) }

ResponseSamples ==
    {PyNone, PyStr(<<"oops">>)} \cup
    {MakeDict([agent |-> a, answer |-> ans, source_documents |-> docs]) :
        a \in {PyStr(HR_AGENT), Absent, PyNone},
        ans \in {PyStr(<<"Answer">>), PyStr(<<>>), Absent, PyNone},
        docs \in {Absent, PyNone}
                 \cup {PyList(ds) : ds \in SeqsUpTo(DocumentSamples, MaxDocs)}}

EvaluationSamples == {
    Absent, PyNone, PyStr(<<"oops">>),
    PyDict([evaluation |-> PyDict([overall_score |-> PyInt(8),
                                   relevance_score |-> PyInt(7)])]),
    PyDict([evaluation |-> PyDict(EmptyMap)]),
    PyDict([evaluation |-> PyNone]),
    PyDict([error |-> PyStr(<<"Evaluation failed: ", "Exception">>)]) }

RawData ==
    {PyNone, PyStr(<<"oops">>)} \cup
    {MakeDict([query |-> q, routing |-> r, response |-> p, evaluation |-> e]) :
        q \in {Absent, PyStr(<<"laptop">>), PyNone},
        r \in RoutingSamples, p \in ResponseSamples, e \in EvaluationSamples}

\* the environments: each variable unset, empty or set; MODEL_NAME is the
\* optional variable
EnvNames ==
    {"OPENAI_API_KEY", "LANGFUSE_PUBLIC_KEY", "LANGFUSE_SECRET_KEY", "MODEL_NAME"}

EnvValues == {<<>>, <<"test-key">>}

Environments == UNION {[names -> EnvValues] : names \in SUBSET EnvNames}

\* the names stores are made and asked under
StoreNames == {"hr", "tech", "finance", "legal"}

\* the test cases: one query, expected under a domain or under a name that
\* is no domain
SuiteCases ==
    {[query |-> <<"laptop">>, expected_intent |-> e] :
        e \in {HR, TECH, FINANCE, GENERAL, <<"legal">>}}

\* how process_query ends on a test case: it raises; the general
\* fallback; the hr agent answers at length and is evaluated; the tech
\* agent answers briefly and the evaluator raises
SuiteRuns(query) ==
    LET hr == route_query(IntentClassification(HR, 9, <<"vacation">>))
        tech == route_query(IntentClassification(TECH, 8, <<"laptop">>))
        general == route_query(IntentClassification(GENERAL, 5, <<"unclear">>))
    IN  {Raised,
         process_query_return(query, general, GeneralResponse, Skipped),
         process_query_return(query, hr, answer_query(HR_AGENT, LongAnswer, <<>>),
                              _default_evaluation(<<"Good", SP, "answer">>)),
         process_query_return(query, tech, answer_query(TECH_AGENT, <<"Answer">>, <<>>),
                              Raised)}

\* what safe_process_query(system, query, evaluate=True) may return
SuiteOutcomes(query) == {safe_process_query(o, query) : o \in SuiteRuns(query)}

IntentOff == ipc = "off" /\ itext = <<>> /\ iresult = NoResult
EvalOff == epc = "off" /\ etext = <<>> /\ eresult = NoResult
ShapeOff == spc = "off" /\ sdata = PyNone /\ squery = <<>> /\ sresult = NoResult
PipelineOff ==
    /\ pc = "off" /\ pq_query = <<>> /\ pq_evaluate = FALSE
    /\ pq_classification = NoResult
    /\ pq_routing = PyNone /\ pq_response = PyNone /\ pq_result = NoResult
    /\ failed = "none" /\ calls = <<>> /\ safe = NoResult
EnvOff == vpc = "off" /\ environ = EmptyMap /\ vresult = NoResult
StoreOff ==
    /\ mpc = "off" /\ constructing = FALSE /\ vector_stores = EmptyMap
    /\ step = 0 /\ built = <<>> /\ lastop = NoResult
SuiteOff ==
    /\ tpc = "off" /\ test_queries = <<>> /\ ti = 0
    /\ results = NoResult /\ outcomes = <<>>

(***************************************************************************)
(* IntentOutputParser.parse applied to a reply                             *)
(***************************************************************************)
InitIntent ==
    /\ ipc = "start"
    /\ itext \in IntentTexts
    /\ iresult = NoResult
    /\ EvalOff /\ ShapeOff /\ PipelineOff /\ EnvOff /\ StoreOff /\ SuiteOff

ParseIntent ==
    /\ ipc = "start"
    /\ iresult' = IntentOutputParser_parse(itext)
    /\ ipc' = "done"
    /\ UNCHANGED <<itext, evars, svars, pvars, nvars, mvars, tvars>>

NextIntent == ParseIntent

SpecIntent == InitIntent /\ [][NextIntent]_vars

(***************************************************************************)
(* EvaluationOutputParser.parse applied to a reply                         *)
(***************************************************************************)
InitEval ==
    /\ epc = "start"
    /\ etext \in EvalTexts
    /\ eresult = NoResult
    /\ IntentOff /\ ShapeOff /\ PipelineOff /\ EnvOff /\ StoreOff /\ SuiteOff

ParseEval ==
    /\ epc = "start"
    /\ eresult' = EvaluationOutputParser_parse(etext)
    /\ epc' = "done"
    /\ UNCHANGED <<etext, ivars, svars, pvars, nvars, mvars, tvars>>

NextEval == ParseEval

SpecEval == InitEval /\ [][NextEval]_vars

(***************************************************************************)
(* create_safe_result applied to a raw result                              *)
(***************************************************************************)
InitShape ==
    /\ spc = "start"
    /\ sdata \in RawData
    /\ squery \in Queries
    /\ sresult = NoResult
    /\ IntentOff /\ EvalOff /\ PipelineOff /\ EnvOff /\ StoreOff /\ SuiteOff

Shape ==
    /\ spc = "start"
    /\ sresult' = create_safe_result(sdata, squery)
    /\ spc' = "done"
    /\ UNCHANGED <<sdata, squery, ivars, evars, pvars, nvars, mvars, tvars>>

NextShape == Shape

SpecShape == InitShape /\ [][NextShape]_vars

(***************************************************************************)
(* Either parser applied to a reply                                        *)
(***************************************************************************)
InitParsers == InitIntent \/ InitEval

NextParsers == ParseIntent \/ ParseEval

SpecParsers == InitParsers /\ [][NextParsers]_vars

(***************************************************************************)
(* validate_environment applied to an environment                          *)
(***************************************************************************)
InitEnv ==
    /\ vpc = "start"
    /\ environ \in Environments
    /\ vresult = NoResult
    /\ IntentOff /\ EvalOff /\ ShapeOff /\ PipelineOff /\ StoreOff /\ SuiteOff

Validate ==
    /\ vpc = "start"
    /\ vresult' = validate_environment(environ)
    /\ vpc' = "done"
    /\ UNCHANGED <<environ, ivars, evars, svars, pvars, mvars, tvars>>

NextEnv == Validate

SpecEnv == InitEnv /\ [][NextEnv]_vars

(***************************************************************************)
(* A VectorStoreManager: one made by MultiAgentSystem.__init__, which sets *)
(* up the stores and looks them up, or one used on its own                 *)
(***************************************************************************)
InitStore ==
    /\ mpc = "idle"
    /\ constructing \in BOOLEAN
    /\ vector_stores = EmptyMap
    /\ step = 0
    /\ built = <<>>
    /\ lastop = NoResult
    /\ IntentOff /\ EvalOff /\ ShapeOff /\ PipelineOff /\ EnvOff /\ SuiteOff

StoreFrame == UNCHANGED <<constructing, ivars, evars, svars, pvars, nvars, tvars>>

\* FAISS.from_documents builds a store and create_vector_store keeps it
Build(store_name) ==
    /\ vector_stores'
       = create_vector_store(vector_stores, store_name, Len(built) + 1)
    /\ built' = Append(built, [store_name |-> store_name, store |-> Len(built) + 1])

\* create_vector_store(documents, store_name) on a manager of its own
CreateVectorStore ==
    /\ mpc = "idle" /\ ~constructing
    /\ Len(built) < MaxStores
    /\ \E store_name \in StoreNames :
          /\ Build(store_name)
          /\ lastop' = [op |-> "create_vector_store", store_name |-> store_name,
                        exc |-> "none", value |-> Len(built) + 1]
    /\ UNCHANGED <<mpc, step>>
    /\ StoreFrame

\* create_vector_store raises while it splits or embeds the documents
CreateVectorStoreRaises ==
    /\ mpc = "idle" /\ ~constructing
    /\ \E store_name \in StoreNames :
          lastop' = [op |-> "create_vector_store", store_name |-> store_name,
                     exc |-> "Exception"]
    /\ UNCHANGED <<mpc, step, vector_stores, built>>
    /\ StoreFrame

\* get_vector_store(store_name) on a manager of its own
GetVectorStore ==
    /\ mpc = "idle" /\ ~constructing
    /\ \E store_name \in StoreNames :
          /\ lastop' = get_vector_store(vector_stores, store_name)
          /\ vector_stores' = lastop'.after
    /\ UNCHANGED <<mpc, step, built>>
    /\ StoreFrame

\* setup_all_stores(data_dir) is called: by __init__ on the manager it has
\* just made, or on a manager of its own
BeginSetup ==
    /\ mpc = "idle"
    /\ IF constructing THEN lastop = NoResult ELSE Len(built) < MaxStores
    /\ mpc' = "setup"
    /\ step' = 1
    /\ lastop' = [op |-> "setup_all_stores", before |-> vector_stores,
                  exc |-> "running"]
    /\ UNCHANGED <<vector_stores, built>>
    /\ StoreFrame

\* one round of the loop of setup_all_stores; after the last round the
\* call returns, and __init__ goes on to its lookups
SetupStep ==
    /\ mpc = "setup"
    /\ Build(stores[step].store_name)
    /\ IF step < Len(stores)
       THEN step' = step + 1 /\ UNCHANGED <<mpc, lastop>>
       ELSE /\ lastop' = [lastop EXCEPT !.exc = "none"]
            /\ mpc' = IF constructing THEN "lookup" ELSE "idle"
            /\ step' = IF constructing THEN 1 ELSE 0
    /\ StoreFrame

\* a round of the loop raises while it loads, splits or embeds: the call
\* raises with the stores made so far, and __init__ raises with it
SetupRaises ==
    /\ mpc = "setup"
    /\ lastop' = [lastop EXCEPT !.exc = "Exception"]
    /\ mpc' = IF constructing THEN "failed" ELSE "idle"
    /\ step' = 0
    /\ UNCHANGED <<vector_stores, built>>
    /\ StoreFrame

\* __init__ looks up the store of its next agent; a lookup that raises
\* ends __init__
Lookup ==
    /\ mpc = "lookup"
    /\ lastop' = get_vector_store(vector_stores, LookupOrder[step])
    /\ vector_stores' = lastop'.after
    /\ IF lastop'.exc # "none" THEN mpc' = "failed" /\ step' = 0
       ELSE IF step < Len(LookupOrder) THEN step' = step + 1 /\ UNCHANGED mpc
       ELSE mpc' = "ready" /\ step' = 0
    /\ UNCHANGED built
    /\ StoreFrame

NextStore ==
    \/ CreateVectorStore
    \/ CreateVectorStoreRaises
    \/ GetVectorStore
    \/ BeginSetup
    \/ SetupStep
    \/ SetupRaises
    \/ Lookup

SpecStore == InitStore /\ [][NextStore]_vars

(***************************************************************************)
(* run_evaluation_suite(system): one run over the test cases it loaded     *)
(***************************************************************************)
InitSuite ==
    /\ tpc = "loop"
    /\ test_queries \in SeqsUpTo(SuiteCases, MaxCases)
    /\ ti = 1
    /\ results = initial_results(test_queries)
    /\ outcomes = <<>>
    /\ IntentOff /\ EvalOff /\ ShapeOff /\ PipelineOff /\ EnvOff /\ StoreOff

SuiteFrame == UNCHANGED <<test_queries, ivars, evars, svars, pvars, nvars, mvars>>

\* one round of the loop: the query is processed and the counters updated;
\* an exception of the loop body ends the run
RunTestCase ==
    /\ tpc = "loop"
    /\ ti <= Len(test_queries)
    /\ \E result \in SuiteOutcomes(test_queries[ti].query) :
          LET after == record_result(results, test_queries[ti].expected_intent, result)
          IN  /\ outcomes' = Append(outcomes, result)
              /\ IF after.exc = "none"
                 THEN results' = after.value /\ ti' = ti + 1 /\ tpc' = "loop"
                 ELSE tpc' = "failed" /\ UNCHANGED <<results, ti>>
    /\ SuiteFrame

\* the loop is over and run_evaluation_suite returns results
SuiteReturns ==
    /\ tpc = "loop"
    /\ ti > Len(test_queries)
    /\ tpc' = "done"
    /\ UNCHANGED <<ti, results, outcomes>>
    /\ SuiteFrame

NextSuite == RunTestCase \/ SuiteReturns

SpecSuite == InitSuite /\ [][NextSuite]_vars

(***************************************************************************)
(* safe_process_query(system, query, evaluate): one call, step by step     *)
(* from one call of a language model or retrieval chain to the next        *)
(***************************************************************************)
Init ==
    /\ pc = "idle" /\ pq_query = <<>> /\ pq_evaluate = FALSE
    /\ pq_classification = NoResult
    /\ pq_routing = PyNone /\ pq_response = PyNone /\ pq_result = NoResult
    /\ failed = "none" /\ calls = <<>> /\ safe = NoResult
    /\ IntentOff /\ EvalOff /\ ShapeOff /\ EnvOff /\ StoreOff /\ SuiteOff

\* safe_process_query is called and process_query reaches the classifier
Submit ==
    /\ pc = "idle"
    /\ \E q \in Queries, e \in BOOLEAN : pq_query' = q /\ pq_evaluate' = e
    /\ pc' = "classify"
    /\ UNCHANGED <<pq_classification, pq_routing, pq_response, pq_result, failed, calls,
                   safe, ivars, evars, svars, nvars, mvars, tvars>>

\* process_query raises at the given stage: safe_process_query catches
Fails(stage) ==
    /\ pq_result' = Raised
    /\ failed' = stage
    /\ safe' = safe_process_query(Raised, pq_query)
    /\ pc' = "done"

\* process_query returns, and safe_process_query shapes what it returned
Returns(resp, evaluation) ==
    /\ pq_result' = process_query_return(pq_query, pq_routing, resp, evaluation)
    /\ safe' = safe_process_query(pq_result', pq_query)
    /\ pc' = "done"

\* step 1: the classifier replies and route_query builds the routing
ClassifierReplies ==
    /\ pc = "classify"
    /\ \E c \in ClassifierOutcomes :
          pq_classification' = c /\ pq_routing' = route_query(c)
    /\ calls' = Append(calls, <<"classifier">>)
    /\ pc' = "dispatch"
    /\ UNCHANGED <<pq_query, pq_evaluate, pq_response, pq_result, failed, safe,
                   ivars, evars, svars, nvars, mvars, tvars>>

\* step 1: the call of the classifier raises
ClassifierRaises ==
    /\ pc = "classify"
    /\ calls' = Append(calls, <<"classifier">>)
    /\ Fails("classifier")
    /\ UNCHANGED <<pq_query, pq_evaluate, pq_classification, pq_routing, pq_response,
                   ivars, evars, svars, nvars, mvars, tvars>>

\* a faulty step 2 that stays at the dispatch after the agent answered
AgentAnswersAgain ==
    /\ pc = "dispatch"
    /\ selected_agent(pq_routing) # <<>>
    /\ calls' = Append(calls, selected_agent(pq_routing))
    /\ \E a \in Answers, docs \in Retrievals :
          pq_response' = answer_query(selected_agent(pq_routing), a, docs)
    /\ UNCHANGED <<pc, pq_result, safe>>
    /\ UNCHANGED <<pq_query, pq_evaluate, pq_classification, pq_routing, failed,
                   ivars, evars, svars, nvars, mvars, tvars>>

\* step 2: the agent of the intent answers
AgentAnswers ==
    /\ pc = "dispatch"
    /\ selected_agent(pq_routing) # <<>>
    /\ calls' = Append(calls, selected_agent(pq_routing))
    /\ \E a \in Answers, docs \in Retrievals :
          /\ pq_response' = answer_query(selected_agent(pq_routing), a, docs)
          /\ IF needs_evaluation(pq_evaluate, pq_response')
             THEN pc' = "evaluate" /\ UNCHANGED <<pq_result, safe>>
             ELSE Returns(pq_response', Skipped)
    /\ UNCHANGED <<pq_query, pq_evaluate, pq_classification, pq_routing, failed,
                   ivars, evars, svars, nvars, mvars, tvars>>

\* step 2: the agent of the intent raises
AgentRaises ==
    /\ pc = "dispatch"
    /\ selected_agent(pq_routing) # <<>>
    /\ calls' = Append(calls, selected_agent(pq_routing))
    /\ Fails("agent")
    /\ UNCHANGED <<pq_query, pq_evaluate, pq_classification, pq_routing, pq_response,
                   ivars, evars, svars, nvars, mvars, tvars>>

\* step 2: no agent matches the intent
GeneralFallback ==
    /\ pc = "dispatch"
    /\ selected_agent(pq_routing) = <<>>
    /\ pq_response' = GeneralResponse
    /\ IF needs_evaluation(pq_evaluate, pq_response')
       THEN pc' = "evaluate" /\ UNCHANGED <<pq_result, safe>>
       ELSE Returns(pq_response', Skipped)
    /\ UNCHANGED <<pq_query, pq_evaluate, pq_classification, pq_routing, failed, calls,
                   ivars, evars, svars, nvars, mvars, tvars>>

\* step 3: the evaluator replies
EvaluatorReplies ==
    /\ pc = "evaluate"
    /\ calls' = Append(calls, <<"evaluator">>)
    /\ \E e \in EvaluatorOutcomes : Returns(pq_response, e)
    /\ UNCHANGED <<pq_query, pq_evaluate, pq_classification, pq_routing, pq_response,
                   failed, ivars, evars, svars, nvars, mvars, tvars>>

\* step 3: the call of the evaluator raises
EvaluatorRaises ==
    /\ pc = "evaluate"
    /\ calls' = Append(calls, <<"evaluator">>)
    /\ failed' = "evaluator"
    /\ Returns(pq_response, Raised)
    /\ UNCHANGED <<pq_query, pq_evaluate, pq_classification, pq_routing, pq_response,
                   ivars, evars, svars, nvars, mvars, tvars>>

Next ==
    \/ Submit
    \/ ClassifierReplies
    \/ ClassifierRaises
    \/ AgentAnswers
    \/ AgentRaises
    \/ GeneralFallback
    \/ EvaluatorReplies
    \/ EvaluatorRaises

Spec == Init /\ [][Next]_vars

(***************************************************************************)
(* Vocabulary of the claims about the parsers                              *)
(***************************************************************************)
\* the lines the intent parser looks at
IntentLinesOf(text) == split(strip(text), NL)

\* the text has a line the intent parser recognises under the label
HasLine(text, label) == first_line(IntentLinesOf(text), label) # <<>>

\* the trimmed value of the first line recognised under the label
LineValue(text, label) == strip(after_colon(first_line(IntentLinesOf(text), label)))

\* the intent line is there and its value is empty or outside the closed set
IntentOutside(text) ==
    HasLine(text, "intent") /\ lower(LineValue(text, "intent")) \notin IntentLiteral

\* the confidence line is there and its value is a number
ConfidenceWellFormed(text) ==
    HasLine(text, "confidence") /\ float(LineValue(text, "confidence")).exc = "none"

IsString(s) == s \in Seq(STRING)

\* the lines of an evaluator reply that carry the label, trimmed
LabelledLines(text, label) ==
    SelectSeq(stripped_lines(split(strip(text), NL)),
              LAMBDA l : startswith_label(l, label))

\* the score of an evaluation record
ScoreOf(r, k) ==
    CASE k = "relevance" -> r.relevance_score
      [] k = "completeness" -> r.completeness_score
      [] k = "accuracy" -> r.accuracy_score
      [] k = "overall" -> r.overall_score

ScoreTypeSet == {ScoreTypes[i] : i \in 1..Len(ScoreTypes)}

\* C1: when the intent value is empty or outside the closed set while the
\* confidence and reasoning lines are well formed, parse returns "general"
\* with the confidence and the reasoning read from the text.
C1_FieldByField ==
    (ipc = "done" /\ IntentOutside(itext) /\ ConfidenceWellFormed(itext)
        /\ HasLine(itext, "reasoning") /\ LineValue(itext, "reasoning") # <<>>)
    => /\ iresult.exc = "none"
       /\ iresult.intent = GENERAL
       /\ iresult.confidence = float(LineValue(itext, "confidence")).value
       /\ iresult.reasoning = lower(LineValue(itext, "reasoning"))

\* C2: IntentOutputParser.parse never raises and returns a record with an
\* intent of the closed set, a numeric confidence and a reasoning string.
C2_IntentParseTotal ==
    ipc = "done"
    => /\ iresult.exc = "none"
       /\ iresult.intent \in IntentLiteral
       /\ iresult.confidence \in Int
       /\ IsString(iresult.reasoning)

\* parse has returned on a reply whose intent is outside the set and that
\* has no confidence line
C2_Witness ==
    ipc = "done" /\ IntentOutside(itext) /\ ~HasLine(itext, "confidence")

\* C3: EvaluationOutputParser.parse never raises and returns a record with
\* four integer scores and a reasoning string.
C3_EvalParseTotal ==
    epc = "done"
    => /\ eresult.exc = "none"
       /\ \A k \in ScoreTypeSet : ScoreOf(eresult, k) \in Int
       /\ IsString(eresult.reasoning)

\* parse has returned on a reply with a score line whose value is no integer
\* and without a reasoning line
C3_Witness ==
    /\ epc = "done"
    /\ \E k \in ScoreTypeSet :
          /\ LabelledLines(etext, k) # <<>>
          /\ int(strip(after_colon(LabelledLines(etext, k)[1]))).exc # "none"
    /\ LabelledLines(etext, "reasoning") = <<>>

\* C4: the confidence parse returns is a number in [0, 1].
C4_ConfidenceInUnitInterval ==
    ipc = "done"
    => /\ iresult.exc = "none"
       /\ iresult.confidence >= 0
       /\ iresult.confidence <= 10

\* C5: when the confidence line is absent or its value is no number, parse
\* returns confidence 0.5, whatever the other lines hold.
C5_ConfidenceDefault ==
    (ipc = "done" /\ ~ConfidenceWellFormed(itext))
    => /\ iresult.exc = "none"
       /\ iresult.confidence = 5

\* C6: the intent parse returns is in the closed set: the trimmed, lowered
\* value of the intent line when that is in the set, "general" when the line
\* is absent or its value is anything else.
C6_IntentClosedSet ==
    ipc = "done"
    => /\ iresult.exc = "none"
       /\ iresult.intent \in IntentLiteral
       /\ iresult.intent =
             IF HasLine(itext, "intent") /\ ~IntentOutside(itext)
             THEN lower(LineValue(itext, "intent"))
             ELSE GENERAL

\* parse has returned on a reply whose intent value is in the set once
\* trimmed and lowered, and not before
C6_Witness ==
    /\ ipc = "done"
    /\ HasLine(itext, "intent")
    /\ LineValue(itext, "intent") \notin IntentLiteral
    /\ lower(LineValue(itext, "intent")) \in IntentLiteral
    /\ iresult.intent = TECH

\* C7: each score is decided by the lines of its own label alone: it is 5
\* when no such line exists, the integer of the line (5 when the value is no
\* integer) when there is one such line, and in every case the score parse
\* gives on the reply reduced to the lines of that label; the reasoning is
\* the one parse gives on the reply reduced to its reasoning lines.
C7_ScoresIndependent ==
    epc = "done"
    => /\ eresult.exc = "none"
       /\ \A k \in ScoreTypeSet :
             LET own == LabelledLines(etext, k)
                 alone == EvaluationOutputParser_parse(join(own))
             IN  /\ ScoreOf(eresult, k) = ScoreOf(alone, k)
                 /\ own = <<>> => ScoreOf(eresult, k) = 5
                 /\ Len(own) = 1 =>
                       LET n == int(strip(after_colon(own[1])))
                       IN  ScoreOf(eresult, k) = IF n.exc = "none" THEN n.value ELSE 5
       /\ eresult.reasoning =
             EvaluationOutputParser_parse(
                 join(LabelledLines(etext, "reasoning"))).reasoning

\* parse has returned on a reply where one score line is malformed and
\* another score line holds an integer other than 5, which is returned
C7_Witness ==
    /\ epc = "done"
    /\ \E k, m \in ScoreTypeSet :
          /\ k # m
          /\ Len(LabelledLines(etext, k)) = 1
          /\ int(strip(after_colon(LabelledLines(etext, k)[1]))).exc # "none"
          /\ Len(LabelledLines(etext, m)) = 1
          /\ int(strip(after_colon(LabelledLines(etext, m)[1]))).exc = "none"
          /\ ScoreOf(eresult, m) # 5
          /\ ScoreOf(eresult, k) = 5

(***************************************************************************)
(* Claims about the pipeline and the result shaping                        *)
(***************************************************************************)
\* C8: safe_process_query never raises and returns a QueryResult whose
\* accessors can be read, whichever stage failed; when process_query raised,
\* it is the empty result: not successful, intent "unknown", agent "none",
\* empty answer, evaluation_score 0.
C8_SafeProcessQueryTotal ==
    pc = "done"
    => /\ safe.exc = "none"
       /\ safe.cls \in {"QueryResult", "EmptyQueryResult"}
       /\ evaluation_score(safe).exc = "none"
       /\ IsString(intent(safe)) /\ IsString(agent(safe)) /\ IsString(answer(safe))
       /\ pq_result.exc # "none"
          => /\ safe.cls = "EmptyQueryResult"
             /\ ~is_successful(safe)
             /\ intent(safe) = <<"unknown">>
             /\ agent(safe) = <<"none">>
             /\ answer(safe) = <<>>
             /\ evaluation_score(safe).value = PyFloat(0)

\* safe_process_query has returned after the domain agent raised
C8_Witness == pc = "done" /\ failed = "agent" /\ pq_result.exc # "none"

\* the evaluator raised, and process_query returned the query, the routing
\* and the response unchanged with an error record as evaluation; the shaped
\* result has no evaluation and evaluation_score 0
EvaluatorFailureKept ==
    /\ pq_result.exc = "none"
    /\ LET got == pq_result.value.v
       IN  /\ got["query"] = PyStr(pq_query)
           /\ got["routing"] = pq_routing
           /\ got["response"] = pq_response
           /\ got["evaluation"].t = "dict"
           /\ DOMAIN got["evaluation"].v = {"error"}
    /\ safe.exc = "none"
    /\ ~has_evaluation(safe)
    /\ evaluation_score(safe) = [exc |-> "none", value |-> PyFloat(0)]

\* C9 as stated: when the evaluator raises, process_query returns query,
\* routing and response with an error record, and the shaped result has
\* is_successful true, has_evaluation false and evaluation_score 0.
C9_EvaluatorFailureSuccessful ==
    (pc = "done" /\ failed = "evaluator")
    => EvaluatorFailureKept /\ is_successful(safe)

\* C9 as amended: when the evaluator raises, process_query returns query,
\* routing and response with an error record, and the shaped result has
\* has_evaluation false, evaluation_score 0 and the is_successful it has
\* without evaluation: true exactly when the agent's answer is not empty.
C9_EvaluatorFailure ==
    (pc = "done" /\ failed = "evaluator")
    => /\ EvaluatorFailureKept
       /\ is_successful(safe) <=> pq_response.v["answer"].v # <<>>
       /\ intent(safe) = pq_routing.v["intent"].v
       /\ agent(safe) = pq_response.v["agent"].v
       /\ answer(safe) = pq_response.v["answer"].v

\* the evaluator raised on a non-empty answer and the shaped result is
\* successful
C9_Witness ==
    pc = "done" /\ failed = "evaluator" /\ safe.exc = "none" /\ is_successful(safe)

\* the raw data cannot be converted
ConversionFails(data, q) == truthy(data) /\ convert(data, q).exc # "none"

\* C10: is_successful is true iff the result has routing, a response and a
\* non-empty answer, which is when the raw data held them and converted;
\* the empty result made for missing data or a failed conversion is not
\* successful.
C10_IsSuccessful ==
    spc = "done"
    => /\ sresult.exc = "none"
       /\ is_successful(sresult)
          <=> /\ sresult.routing.t # "NoneType"
              /\ sresult.response.t # "NoneType"
              /\ sresult.response.answer # <<>>
       /\ is_successful(sresult)
          <=> /\ truthy(sdata) /\ ~ConversionFails(sdata, squery)
              /\ truthy(dict_get(sdata, "routing", PyNone))
              /\ truthy(dict_get(sdata, "response", PyNone))
              /\ truthy(dict_get(sdata.v["response"], "answer", PyStr(<<>>)))
       /\ (~truthy(sdata) \/ ConversionFails(sdata, squery))
          => sresult.cls = "EmptyQueryResult" /\ ~is_successful(sresult)

\* create_safe_result has returned the empty result for raw data that held
\* routing and a non-empty answer and failed to convert
C10_Witness ==
    /\ spc = "done"
    /\ ConversionFails(sdata, squery)
    /\ sdata.t = "dict"
    /\ truthy(dict_get(sdata, "routing", PyNone))
    /\ dict_get(sdata, "response", PyNone).t = "dict"
    /\ dict_get(sdata.v["response"], "answer", PyNone) = PyStr(<<"Answer">>)
    /\ sresult.cls = "EmptyQueryResult"
    /\ ~is_successful(sresult)

(***************************************************************************)
(* Claims about the accessors of QueryResult                               *)
(***************************************************************************)
\* C11: the accessors intent, confidence, agent, answer and
\* source_documents of a shaped result never raise: without routing the
\* intent is "unknown" and the confidence 0.0, without a response the agent
\* is "none", the answer empty and the source list empty, and otherwise they
\* are the values the routing and the response hold, which are those of the
\* raw data (one source document for each dictionary of its list).
C11_AccessorDefaults ==
    spc = "done"
    => /\ sresult.exc = "none"
       /\ IF sresult.routing.t = "NoneType"
          THEN intent(sresult) = <<"unknown">> /\ confidence(sresult) = 0
          ELSE /\ intent(sresult) = sresult.routing.intent
               /\ confidence(sresult) = sresult.routing.confidence
               /\ intent(sresult) = sdata.v["routing"].v["intent"].v
               /\ confidence(sresult)
                  = float_field(sdata.v["routing"].v, "confidence").value
       /\ IF sresult.response.t = "NoneType"
          THEN /\ agent(sresult) = <<"none">>
               /\ answer(sresult) = <<>>
               /\ source_documents(sresult) = <<>>
          ELSE /\ agent(sresult) = sresult.response.agent
               /\ answer(sresult) = sresult.response.answer
               /\ source_documents(sresult) = sresult.response.source_documents
               /\ agent(sresult)
                  = dict_get(sdata.v["response"], "agent", PyStr(<<"unknown">>)).v
               /\ answer(sresult)
                  = dict_get(sdata.v["response"], "answer", PyStr(<<>>)).v
               /\ Len(source_documents(sresult))
                  = Len(SelectSeq(dict_get(sdata.v["response"], "source_documents",
                                           PyList(<<>>)).v,
                                  LAMBDA d : d.t = "dict"))

\* a shaped result without routing whose response holds two documents: the
\* routing accessors give their defaults, the response accessors the values
C11_Witness ==
    /\ spc = "done"
    /\ sresult.exc = "none"
    /\ sresult.routing.t = "NoneType"
    /\ sresult.response.t # "NoneType"
    /\ intent(sresult) = <<"unknown">>
    /\ confidence(sresult) = 0
    /\ agent(sresult) = HR_AGENT
    /\ Len(source_documents(sresult)) = 2

\* C12: evaluation_score never raises: it is the overall score when the
\* evaluation holds one and 0.0 otherwise, that is when the evaluation is
\* absent, holds only an error record, holds a null evaluation entry or an
\* evaluation entry without overall_score.
C12_EvaluationScoreTotal ==
    (spc = "done" /\ sresult.exc = "none")
    => /\ evaluation_score(sresult).exc = "none"
       /\ evaluation_score(sresult).value
          = IF /\ sresult.evaluation.t = "dict"
               /\ "evaluation" \in DOMAIN sresult.evaluation.v
               /\ sresult.evaluation.v["evaluation"].t = "dict"
               /\ "overall_score" \in DOMAIN sresult.evaluation.v["evaluation"].v
            THEN sresult.evaluation.v["evaluation"].v["overall_score"]
            ELSE PyFloat(0)

(***************************************************************************)
(* Claims about routing, dispatch and the evaluator gate of process_query  *)
(***************************************************************************)
\* the domain agents invoked so far, in order
AgentCalls ==
    SelectSeq(calls, LAMBDA c : c \in {HR_AGENT, TECH_AGENT, FINANCE_AGENT})

\* the evaluator has been invoked
EvaluatorCalled == \E i \in 1..Len(calls) : calls[i] = <<"evaluator">>

\* process_query has got past the classifier
Routed == pc \in {"dispatch", "evaluate", "done"} /\ failed # "classifier"

\* process_query has got past the dispatch of step 2
Dispatched == pc \in {"evaluate", "done"} /\ failed # "classifier"

\* C13: process_query dispatches by intent: for hr, tech and finance it
\* invokes the agent of that intent and no other, and the response it
\* returns is that agent's answer; for any other intent it invokes no agent
\* and returns the canned fallback, whose agent is "general" and whose
\* source list is empty.
C13_Dispatch ==
    /\ ~Dispatched => AgentCalls = <<>>
    /\ Dispatched
       => IF pq_classification.intent \in {HR, TECH, FINANCE}
          THEN /\ AgentCalls = <<pq_classification.intent \o <<"_agent">>>>
               /\ failed # "agent"
                  => /\ pq_response.v["agent"]
                        = PyStr(pq_classification.intent \o <<"_agent">>)
                     /\ pc = "done" => pq_result.value.v["response"] = pq_response
          ELSE /\ AgentCalls = <<>>
               /\ pq_response.v["agent"] = PyStr(<<"general">>)
               /\ pq_response.v["source_documents"] = PyList(<<>>)
               /\ pq_response.v["answer"] = PyStr(FallbackAnswer)
               /\ pc = "done" => pq_result.value.v["response"] = pq_response

\* a finance query has been answered by the finance agent alone
C13_Witness ==
    /\ pc = "done"
    /\ failed = "none"
    /\ pq_classification.intent = FINANCE
    /\ AgentCalls = <<FINANCE_AGENT>>
    /\ pq_result.value.v["response"].v["agent"] = PyStr(FINANCE_AGENT)
    /\ pq_result.value.v["response"].v["answer"] = PyStr(<<"Answer">>)

\* C14: route_query gives route_to "<intent>_agent" for hr, tech and
\* finance and "general_response" for general, and its record carries the
\* classified intent, the reasoning, and the confidence rendered as a
\* string, which reads back as the classified confidence.
C14_RouteQuery ==
    Routed
    => /\ pq_classification.intent \in IntentLiteral
       /\ DOMAIN pq_routing.v = {"intent", "confidence", "reasoning", "route_to"}
       /\ pq_routing.v["intent"] = PyStr(pq_classification.intent)
       /\ pq_routing.v["reasoning"] = PyStr(pq_classification.reasoning)
       /\ pq_routing.v["confidence"].t = "str"
       /\ float(pq_routing.v["confidence"].v)
          = [exc |-> "none", value |-> pq_classification.confidence]
       /\ pq_routing.v["route_to"]
          = IF pq_classification.intent \in {HR, TECH, FINANCE}
            THEN PyStr(pq_classification.intent \o <<"_agent">>)
            ELSE PyStr(<<"general_response">>)

\* a reply classified general has been routed to general_response, its
\* confidence 0.9 rendered as "0.9"
C14_Witness ==
    /\ Routed
    /\ pq_classification.intent = GENERAL
    /\ pq_classification.confidence = 9
    /\ pq_routing.v["route_to"] = PyStr(<<"general_response">>)
    /\ pq_routing.v["confidence"] = PyStr(<<"0.9">>)

\* C15: the evaluator is invoked only when evaluate is true and the agent
\* of the response is not "general"; otherwise it is not called and the
\* evaluation field of the result is null.
C15_EvaluatorGate ==
    /\ EvaluatorCalled
       => pq_evaluate /\ pq_response.v["agent"] # PyStr(<<"general">>)
    /\ (pc = "done" /\ failed \notin {"classifier", "agent"})
       => /\ EvaluatorCalled
             <=> (pq_evaluate /\ pq_response.v["agent"] # PyStr(<<"general">>))
          /\ ~EvaluatorCalled <=> pq_result.value.v["evaluation"] = PyNone

\* evaluation was asked for a query that got the general fallback: the
\* evaluator was not called and the evaluation field is null
C15_Witness ==
    /\ pc = "done"
    /\ failed = "none"
    /\ pq_evaluate
    /\ pq_response.v["agent"] = PyStr(<<"general">>)
    /\ ~EvaluatorCalled
    /\ pq_result.value.v["evaluation"] = PyNone

(***************************************************************************)
(* Claims about the text protocol of the classifier                        *)
(***************************************************************************)
\* sub occurs in s
Contains(sub, s) ==
    \E k \in 0..(Len(s) - Len(sub)) : SubSeq(s, k + 1, k + Len(sub)) = sub

\* the reply is the three lines "Intent: <i>", "Confidence: <c>",
\* "Reasoning: <r>" with i in the closed set, c a number and r a text
WellFormedReply(text) ==
    LET lines == split(text, NL)
    IN  /\ Len(lines) = 3
        /\ Len(lines[1]) = 4
        /\ SubSeq(lines[1], 1, 3) = <<"Intent", COLON, SP>>
        /\ <<lines[1][4]>> \in IntentLiteral
        /\ Len(lines[2]) = 4
        /\ SubSeq(lines[2], 1, 3) = <<"Confidence", COLON, SP>>
        /\ lines[2][4] \in FloatLiterals
        /\ Len(lines[3]) > 3
        /\ SubSeq(lines[3], 1, 3) = <<"Reasoning", COLON, SP>>
        /\ lines[3][4] \notin Whitespace
        /\ lines[3][Len(lines[3])] \notin Whitespace

\* the i, c and r of a well-formed reply
ReplyIntent(text) == <<split(text, NL)[1][4]>>
ReplyConfidence(text) == float_value(split(text, NL)[2][4])
ReplyReasoning(text) ==
    SubSeq(split(text, NL)[3], 4, Len(split(text, NL)[3]))

\* C16: for every well-formed three-line reply "Intent: <i>",
\* "Confidence: <c>", "Reasoning: <r>" with i in the closed set and c a
\* number, classify_intent returns the intent i, the confidence c and a
\* reasoning that contains the text r.
C16_ClassifyWellFormed ==
    (ipc = "done" /\ WellFormedReply(itext))
    => /\ iresult.exc = "none"
       /\ iresult.intent = ReplyIntent(itext)
       /\ iresult.confidence = ReplyConfidence(itext)
       /\ Contains(ReplyReasoning(itext), iresult.reasoning)

\* the labels of the two protocols, each in lower case, capitalised and in
\* upper case
LabelForms ==
    [intent |-> <<"intent", "Intent", "INTENT">>,
     confidence |-> <<"confidence", "Confidence", "CONFIDENCE">>,
     reasoning |-> <<"reasoning", "Reasoning", "REASONING">>,
     relevance |-> <<"relevance", "Relevance", "RELEVANCE">>,
     completeness |-> <<"completeness", "Completeness", "COMPLETENESS">>,
     accuracy |-> <<"accuracy", "Accuracy", "ACCURACY">>,
     overall |-> <<"overall", "Overall", "OVERALL">>]

\* the atom at i is a label: a label word followed by the colon, with
\* nothing but blanks before it on its line
IsLabelAt(text, i) ==
    /\ lower_atom(text[i]) \in DOMAIN LabelForms
    /\ i < Len(text)
    /\ text[i + 1] = COLON
    /\ \A j \in 1..(i - 1) :
          (\A m \in j..(i - 1) : text[m] # NL) => text[j] = SP

\* the text with every label written in the k-th letter case
Recase(text, k) ==
    [i \in 1..Len(text) |->
        IF IsLabelAt(text, i) THEN LabelForms[lower_atom(text[i])][k] ELSE text[i]]

\* C17: label matching is case-insensitive in both parsers: writing the
\* labels of a reply in another letter case leaves the parsed record
\* unchanged.
C17_LabelCase ==
    /\ ipc = "done"
       => \A k \in 1..3 : IntentOutputParser_parse(Recase(itext, k)) = iresult
    /\ epc = "done"
       => \A k \in 1..3 : EvaluationOutputParser_parse(Recase(etext, k)) = eresult

\* a reply whose intent label is in upper case has been parsed to the
\* intent of its value, as it is with the label in lower case
C17_Witness ==
    /\ ipc = "done"
    /\ itext # <<>>
    /\ itext[1] = "INTENT"
    /\ IsLabelAt(itext, 1)
    /\ Recase(itext, 1) # itext
    /\ iresult.intent = TECH
    /\ IntentOutputParser_parse(Recase(itext, 1)) = iresult

(***************************************************************************)
(* Claims about validate_environment                                       *)
(***************************************************************************)
\* the required variables that are unset or empty
MissingIn(env) ==
    {var \in {"OPENAI_API_KEY", "LANGFUSE_PUBLIC_KEY", "LANGFUSE_SECRET_KEY"} :
        var \notin DOMAIN env \/ env[var] = <<>>}

\* C18: validate_environment raises ValueError, with the message "Missing
\* required environment variables" naming the missing ones, exactly when
\* one of OPENAI_API_KEY, LANGFUSE_PUBLIC_KEY, LANGFUSE_SECRET_KEY is unset
\* or empty; when all three are set it returns without raising.
C18_ValidateEnvironment ==
    vpc = "done"
    => /\ vresult.exc \in {"none", "ValueError"}
       /\ vresult.exc = "ValueError" <=> MissingIn(environ) # {}
       /\ vresult.exc = "ValueError"
          => /\ Head(vresult.message) = "Missing required environment variables: "
             /\ {vresult.message[i] : i \in 2..Len(vresult.message)} \ {", "}
                = MissingIn(environ)
             /\ Len(vresult.message) = 2 * Cardinality(MissingIn(environ))

\* the API key is empty and the public key unset: the error names both and
\* not the secret key, which is set
C18_Witness ==
    /\ vpc = "done"
    /\ "OPENAI_API_KEY" \in DOMAIN environ
    /\ environ["OPENAI_API_KEY"] = <<>>
    /\ "LANGFUSE_PUBLIC_KEY" \notin DOMAIN environ
    /\ "LANGFUSE_SECRET_KEY" \in DOMAIN environ
    /\ environ["LANGFUSE_SECRET_KEY"] # <<>>
    /\ vresult = [exc |-> "ValueError",
                  message |-> <<"Missing required environment variables: ",
                                "OPENAI_API_KEY", ", ", "LANGFUSE_PUBLIC_KEY">>]

(***************************************************************************)
(* Claims about the VectorStoreManager                                     *)
(***************************************************************************)
\* the names under which a store has been made
CreatedNames == {built[i].store_name : i \in 1..Len(built)}

\* the store made last under the name
LatestBuilt(store_name) ==
    LET last == CHOOSE i \in 1..Len(built) :
                   /\ built[i].store_name = store_name
                   /\ \A j \in (i + 1)..Len(built) : built[j].store_name # store_name
    IN  built[last].store

\* C19: a new VectorStoreManager holds no stores; get_vector_store(name)
\* returns the store most recently created under that name, and for a name
\* that was never created it raises ValueError and leaves the stores
\* unchanged.
C19_GetVectorStore ==
    mpc # "off"
    => /\ built = <<>> => vector_stores = EmptyMap
       /\ DOMAIN vector_stores = CreatedNames
       /\ lastop.exc # "pending" /\ lastop.op = "get_vector_store"
          => IF lastop.store_name \in CreatedNames
             THEN /\ lastop.exc = "none"
                  /\ lastop.value = LatestBuilt(lastop.store_name)
             ELSE /\ lastop.exc = "ValueError"
                  /\ vector_stores = lastop.before
                  /\ lastop.store_name \notin DOMAIN vector_stores

\* a name has had two stores made under it, then another name one, and
\* the lookup of the first name returned its second store
C19_Witness ==
    /\ mpc = "idle"
    /\ lastop.exc = "none"
    /\ lastop.op = "get_vector_store"
    /\ Cardinality({i \in 1..Len(built) : built[i].store_name = lastop.store_name}) = 2
    /\ lastop.value = LatestBuilt(lastop.store_name)
    /\ built[Len(built)].store_name # lastop.store_name

\* setup_all_stores has returned from a call on a manager without stores
SetupDoneOnNew ==
    /\ lastop.exc = "none"
    /\ lastop.op = "setup_all_stores"
    /\ lastop.before = EmptyMap

\* C20: when setup_all_stores has completed on a new manager the stores are
\* exactly hr, tech and finance, so the three lookups of
\* MultiAgentSystem.__init__, which come after it, all succeed.
C20_SetupAllStores ==
    /\ SetupDoneOnNew => DOMAIN vector_stores = {"hr", "tech", "finance"}
    /\ mpc \in {"lookup", "ready"}
       => /\ constructing
          /\ DOMAIN vector_stores = {"hr", "tech", "finance"}
          /\ lastop.exc = "none"
    /\ (constructing /\ mpc = "failed") => lastop.op = "setup_all_stores"

\* __init__ has made its three lookups and holds the finance store that
\* setup_all_stores made last
C20_Witness ==
    /\ mpc = "ready"
    /\ constructing
    /\ lastop.exc = "none"
    /\ lastop.op = "get_vector_store"
    /\ lastop.store_name = "finance"
    /\ lastop.value = 3
    /\ DOMAIN vector_stores = {"hr", "tech", "finance"}

(***************************************************************************)
(* Claims about the order of the steps of process_query                    *)
(***************************************************************************)
\* how often the name occurs in the log of calls
CallCount(name) == Cardinality({i \in 1..Len(calls) : calls[i] = name})

\* C21: in every run of process_query the steps happen in a fixed order and
\* at most once each: the classifier is invoked exactly once and before any
\* domain agent, at most one domain agent is invoked, and the evaluator is
\* invoked at most once and only after a domain agent has returned its
\* answer.
C21_StepOrder ==
    /\ pc \in {"idle", "classify"} => calls = <<>>
    /\ pc \in {"dispatch", "evaluate", "done"}
       => CallCount(<<"classifier">>) = 1 /\ calls[1] = <<"classifier">>
    /\ Len(AgentCalls) <= 1
    /\ CallCount(<<"evaluator">>) <= 1
    /\ EvaluatorCalled
       => /\ Len(calls) = 3
          /\ calls[2] \in {HR_AGENT, TECH_AGENT, FINANCE_AGENT}
          /\ calls[3] = <<"evaluator">>
          /\ failed # "agent"
          /\ pq_response.v["agent"] = PyStr(calls[2])

\* a run has ended with the classifier, the tech agent and the evaluator
\* invoked once each, in that order
C21_Witness ==
    /\ pc = "done"
    /\ failed = "none"
    /\ calls = <<<<"classifier">>, TECH_AGENT, <<"evaluator">>>>

(***************************************************************************)
(* Claims about what process_query returns to its callers                  *)
(***************************************************************************)
\* process_query has returned a result
Returned == pc = "done" /\ pq_result.exc = "none"

\* C22: whenever process_query returns a result whose evaluation field is
\* not null, that field holds the evaluation record with the four scores
\* under the key "evaluation", so a caller may read
\* result["evaluation"]["evaluation"]["overall_score"] after testing only
\* that result["evaluation"] is not null.
C22_EvaluationRecord ==
    (Returned /\ pq_result.value.v["evaluation"] # PyNone)
    => /\ "evaluation" \in DOMAIN pq_result.value.v["evaluation"].v
       /\ {"relevance_score", "completeness_score", "accuracy_score", "overall_score"}
          \subseteq DOMAIN pq_result.value.v["evaluation"].v["evaluation"].v
       /\ read_overall_score(pq_result.value).exc = "none"

\* C23: a query classified general, as is every query whose classifier
\* reply could not be parsed, is reported successful: safe_process_query
\* returns is_successful true with agent "general", the canned answer, no
\* source documents and no evaluation, also when evaluate is true.
C23_GeneralIsSuccessful ==
    (pc = "done" /\ failed = "none" /\ pq_classification.intent = GENERAL)
    => /\ safe.exc = "none"
       /\ safe.cls = "QueryResult"
       /\ is_successful(safe)
       /\ intent(safe) = <<"general">>
       /\ agent(safe) = <<"general">>
       /\ answer(safe) = FallbackAnswer
       /\ source_documents(safe) = <<>>
       /\ safe.evaluation = PyNone
       /\ ~has_evaluation(safe)
       /\ ~EvaluatorCalled

\* a query whose classifier reply could not be parsed was asked with
\* evaluate true and is reported successful with the canned answer
C23_Witness ==
    /\ pc = "done"
    /\ failed = "none"
    /\ pq_evaluate
    /\ pq_classification
       = IntentClassification(GENERAL, 1, <<"Failed to parse response">>)
    /\ safe.exc = "none"
    /\ is_successful(safe)
    /\ answer(safe) = FallbackAnswer

(***************************************************************************)
(* Claims about create_safe_result                                         *)
(***************************************************************************)
\* the result is the empty result
IsEmptyResult(r) ==
    /\ r.exc = "none"
    /\ r.cls = "EmptyQueryResult"
    /\ r.routing = PyNone
    /\ r.response = PyNone
    /\ ~is_successful(r)

\* the raw routing is there and fails validation
RoutingInvalid(data) ==
    /\ data.t = "dict"
    /\ truthy(dict_get(data, "routing", PyNone))
    /\ RoutingInfo(data.v["routing"]).exc # "none"

\* the source documents of the raw response, <<>> when there is no list
RawDocuments(data) ==
    IF /\ data.t = "dict"
       /\ dict_get(data, "response", PyNone).t = "dict"
       /\ dict_get(data.v["response"], "source_documents", PyNone).t = "list"
    THEN data.v["response"].v["source_documents"].v
    ELSE <<>>

\* a source document of the raw response is a dictionary that fails validation
DocumentInvalid(data) ==
    \E i \in 1..Len(RawDocuments(data)) :
        /\ RawDocuments(data)[i].t = "dict"
        /\ SourceDocument(RawDocuments(data)[i].v).exc # "none"

\* C24: create_safe_result never raises and converts all-or-nothing: when
\* the routing or a dictionary source document fails validation the result
\* is the empty result (no routing, no response, not successful) even when
\* the raw data held a valid answer; missing or empty data gives the empty
\* result too; source documents that are no dictionaries are skipped; a
\* missing routing or response alone leaves the other part in place.
C24_AllOrNothing ==
    spc = "done"
    => /\ sresult.exc = "none"
       /\ ~truthy(sdata) => IsEmptyResult(sresult)
       /\ RoutingInvalid(sdata) => IsEmptyResult(sresult)
       /\ DocumentInvalid(sdata) => IsEmptyResult(sresult)
       /\ sresult.cls = "QueryResult"
          => /\ sresult.routing = PyNone
                <=> ~truthy(dict_get(sdata, "routing", PyNone))
             /\ sresult.response = PyNone
                <=> ~truthy(dict_get(sdata, "response", PyNone))
             /\ Len(source_documents(sresult))
                = Len(SelectSeq(RawDocuments(sdata), LAMBDA d : d.t = "dict"))

\* raw data with valid routing and an answer whose second source document
\* lacks the filename: the result is the empty result
C24_Witness ==
    /\ spc = "done"
    /\ sdata.t = "dict"
    /\ ~RoutingInvalid(sdata)
    /\ truthy(dict_get(sdata, "routing", PyNone))
    /\ Len(RawDocuments(sdata)) = 2
    /\ dict_get(sdata.v["response"], "answer", PyNone) = PyStr(<<"Answer">>)
    /\ RawDocuments(sdata)[1].t = "dict"
    /\ SourceDocument(RawDocuments(sdata)[1].v).exc = "none"
    /\ DocumentInvalid(sdata)
    /\ IsEmptyResult(sresult)

(***************************************************************************)
(* Claims about labels that occur on several lines, and about indentation  *)
(***************************************************************************)
\* the label the intent parser recognises the line under, "" when none
IntentLabelOf(line) ==
    IF startswith_label(line, "intent") THEN "intent"
    ELSE IF startswith_label(line, "confidence") THEN "confidence"
    ELSE IF startswith_label(line, "reasoning") THEN "reasoning"
    ELSE ""

\* the lines without those whose label an earlier line carries
KeepFirst(lines) ==
    SelectSeq([i \in 1..Len(lines) |->
                  IF /\ IntentLabelOf(lines[i]) # ""
                     /\ \E j \in 1..(i - 1) :
                           IntentLabelOf(lines[j]) = IntentLabelOf(lines[i])
                  THEN <<"dropped">>
                  ELSE lines[i]],
              LAMBDA l : l # <<"dropped">>)

\* the values of the lines of the label that parse as integers, in order
IntegerValues(text, k) ==
    SelectSeq([i \in 1..Len(LabelledLines(text, k)) |->
                  int(strip(after_colon(LabelledLines(text, k)[i])))],
              LAMBDA n : n.exc = "none")

\* C25: when a label occurs on several lines, the intent parser uses only
\* the first line carrying it for intent, confidence and reasoning (a
\* malformed first confidence line gives 0.5 even if a later confidence
\* line is well formed), whereas the evaluation parser takes each score
\* from the last line of its label whose value parses as an integer and the
\* reasoning from the first reasoning line.
C25_FirstAndLast ==
    /\ ipc = "done"
       => /\ IntentOutputParser_parse(join(KeepFirst(IntentLinesOf(itext)))) = iresult
          /\ (HasLine(itext, "confidence") /\ ~ConfidenceWellFormed(itext))
             => iresult.confidence = 5
    /\ epc = "done"
       => /\ \A k \in ScoreTypeSet :
                ScoreOf(eresult, k)
                = IF IntegerValues(etext, k) = <<>> THEN 5
                  ELSE IntegerValues(etext, k)[Len(IntegerValues(etext, k))].value
          /\ eresult.reasoning
             = IF LabelledLines(etext, "reasoning") = <<>>
               THEN <<"No reasoning provided">>
               ELSE strip(after_colon(LabelledLines(etext, "reasoning")[1]))

\* the line is indented and carries a label once trimmed
IndentedLabel(line) ==
    /\ line # <<>>
    /\ line[1] = SP
    /\ IntentLabelOf(lstrip(line)) # ""

\* the lines without the i-th
WithoutLine(lines, i) == SubSeq(lines, 1, i - 1) \o SubSeq(lines, i + 1, Len(lines))

\* the field of an intent record under the label, and its default
FieldOf(r, label) ==
    CASE label = "intent" -> r.intent
      [] label = "confidence" -> r.confidence
      [] label = "reasoning" -> r.reasoning

DefaultOf(label) ==
    CASE label = "intent" -> GENERAL
      [] label = "confidence" -> 5
      [] label = "reasoning" -> <<"Unable to determine reasoning">>

\* every line of the text with a blank put before it
Indented(text) ==
    join([i \in 1..Len(split(text, NL)) |-> <<SP>> \o split(text, NL)[i]])

\* C26: the intent parser matches a label only at the very start of a
\* line: a labelled line with leading whitespace, other than the first line
\* of the text, is not recognised and its field takes the default, whereas
\* the evaluation parser trims every line and drops blank lines before
\* matching, so the same indentation does not change its result.
C26_Indentation ==
    /\ ipc = "done"
       => \A i \in 2..Len(IntentLinesOf(itext)) :
             LET lines == IntentLinesOf(itext)
                 label == IntentLabelOf(lstrip(lines[i]))
             IN  IndentedLabel(lines[i])
                 => /\ IntentOutputParser_parse(join(WithoutLine(lines, i))) = iresult
                    /\ ~HasLine(itext, label)
                       => FieldOf(iresult, label) = DefaultOf(label)
    /\ epc = "done"
       => /\ EvaluationOutputParser_parse(Indented(etext)) = eresult
          /\ EvaluationOutputParser_parse(
                 join(stripped_lines(split(strip(etext), NL)))) = eresult

(***************************************************************************)
(* Claims about the scale of the scores                                    *)
(***************************************************************************)
\* C27: every score of the EvaluationResult evaluate_response returns lies
\* on the scale from 1 to 10 that the evaluation format prescribes: no
\* reply makes the parser return a score below 1 or above 10.
C27_ScoresOnScale ==
    epc = "done"
    => /\ eresult.exc = "none"
       /\ \A k \in ScoreTypeSet : ScoreOf(eresult, k) >= 1 /\ ScoreOf(eresult, k) <= 10

(***************************************************************************)
(* Claims about the counters of run_evaluation_suite                       *)
(***************************************************************************)
\* the number of successful results among those returned so far
Successes == Cardinality({i \in 1..Len(outcomes) : is_successful(outcomes[i])})

\* the sums of the per-domain counters
TotalSum ==
    results.by_domain[HR].total + results.by_domain[TECH].total
    + results.by_domain[FINANCE].total + results.by_domain[GENERAL].total

CorrectSum ==
    results.by_domain[HR].correct + results.by_domain[TECH].correct
    + results.by_domain[FINANCE].correct + results.by_domain[GENERAL].correct

\* C28: after run_evaluation_suite has processed any sequence of test
\* cases its counters are consistent: correct_classifications is the sum of
\* the per-domain correct counts, each domain's correct count is at most
\* its total, the sum of the per-domain totals is the number of successful
\* results and at most total_queries, and successful_responses and the
\* number of quality scores are each at most the number of successful
\* results.
C28_CountersConsistent ==
    tpc \in {"loop", "done"}
    => /\ results.total_queries = Len(test_queries)
       /\ Len(outcomes) = ti - 1
       /\ results.correct_classifications = CorrectSum
       /\ \A d \in DOMAIN results.by_domain :
             results.by_domain[d].correct <= results.by_domain[d].total
       /\ TotalSum = Successes
       /\ TotalSum <= results.total_queries
       /\ results.successful_responses <= Successes
       /\ Len(results.quality_scores) <= Successes

\* a run over three cases has returned: one query failed, one was
\* classified as expected and evaluated, one was answered briefly under
\* another intent than expected
C28_Witness ==
    /\ tpc = "done"
    /\ Len(test_queries) = 3
    /\ Successes = 2
    /\ results.correct_classifications = 1
    /\ results.successful_responses = 1
    /\ Len(results.quality_scores) = 1
    /\ results.by_domain[HR] = [total |-> 1, correct |-> 1]
    /\ results.by_domain[FINANCE] = [total |-> 1, correct |-> 0]

=============================================================================
